---- MODULE Spec2Model ----
(***************************************************************************)
(* Model of backend/core/task_queue: TaskQueueManager (queue_manager.py)   *)
(* and Task (task_schema.py).                                              *)
(*                                                                         *)
(* The manager runs on one asyncio event loop, so a coroutine runs         *)
(* atomically from one suspension point to the next.  The suspension       *)
(* points are: acquiring _queue_lock while it is held, the awaits on the   *)
(* storage connector, the await on the handler, and the dispatcher's       *)
(* sleep.  Every action below is one such atomic segment.  A coroutine     *)
(* spawned with asyncio.create_task starts at a later loop iteration, so   *)
(* other coroutines may run between the pop and the start of a unit.       *)
(*                                                                         *)
(* asyncio.Lock serves its waiters first come first served, and acquire()  *)
(* does not suspend when the lock is free and nobody waits.  enqueue and   *)
(* _process_next_tasks read nothing before they take the lock, so they are *)
(* modelled from the moment they hold it; the coroutines that reach the    *)
(* lock in the middle of their work wait in lock_waiters.                  *)
(*                                                                         *)
(* The event loop runs its ready callbacks first in, first out, and the    *)
(* dispatcher sleeps one second after each pass.  The units a pass spawns  *)
(* are appended to the ready list one after the other: they run their      *)
(* first segments in spawn order with nothing in between, and before the   *)
(* next pass.  A unit is "spawned" until the first unit of its batch runs, *)
(* and "starting" while the batch is being run.  A unit that finds no      *)
(* handler makes its second status update in the same segment as the       *)
(* lookup: it is "no_handler" between the two, and nothing else runs.      *)
(***************************************************************************)
EXTENDS Integers, Sequences, FiniteSets, TLC

\* ---------------------------------------------------------------- bounds
NumTasks == 3
MaxPriority == 2
MaxSubmits == 3
MaxCancels == 1
MaxClock == 2
MaxConcurrent == 2
MaxGets == 2

\* deque(maxlen=100) of recently completed tasks
CompletedMaxLen == 100

TaskIds == 1..NumTasks
Priorities == 1..MaxPriority
\* dependency lists a caller may pass to enqueue
DepChoices == {{}, {2}, {2, 3}}
\* the task_type tag carried by submitted tasks
TaskTypes == {"analysis"}
\* keys under which a caller may register a handler
HandlerKeys == {"analysis", "default"}

\* ---------------------------------------------------------------- TaskStatus
QUEUED == "QUEUED"
IN_PROGRESS == "IN_PROGRESS"
COMPLETED == "COMPLETED"
FAILED == "FAILED"
CANCELLED == "CANCELLED"
TaskStatus == {QUEUED, IN_PROGRESS, COMPLETED, FAILED, CANCELLED}
Terminal == {COMPLETED, FAILED, CANCELLED}

\* Optional fields that hold None (results: None or a falsy empty map)
None == "None"
\* error: None or a message; a message is a tuple of its parts
NoError == <<>>

VARIABLES
    tasks,                \* self.tasks: id -> Task (a dict: DOMAIN tasks is its key set)
    task_order,           \* iteration order of self.tasks (dicts keep first-insertion order)
    task_queue,           \* self.task_queue: the heap of (-priority, timestamp, id)
    running_tasks,        \* self.running_tasks (key set)
    completed_tasks,      \* self.completed_tasks, newest first
    task_handlers,        \* self.task_handlers (key set)
    storage,              \* whether a storage connector was passed to __init__
    max_concurrent_tasks, \* self.max_concurrent_tasks
    queue_lock,           \* self._queue_lock is held
    clock,                \* the wall clock read by datetime.now()
    lock_waiters,         \* coroutines waiting for the lock, first come first served
    saving,               \* the enqueue call suspended in storage.save_task (0: none)
    cancels,              \* ids of the cancel_task calls suspended in storage.update_task
    units,                \* _execute_task coroutines spawned and not finished
    returned,             \* what the last finished enqueue / cancel_task call returned
    nsubmit,              \* number of enqueue calls made
    ncancel,              \* number of cancel_task calls made
    nget                  \* number of get_task calls made

vars == <<tasks, task_order, task_queue, running_tasks, completed_tasks,
          task_handlers, storage, max_concurrent_tasks, queue_lock,
          lock_waiters, clock, saving, cancels, units, returned, nsubmit, ncancel, nget>>

\* ---------------------------------------------------------------- Task
\* Task(...) as a caller constructs it: the defaults of task_schema.py
NewTask(prio, deps, ty) ==
    [status |-> QUEUED, priority |-> prio, dependencies |-> deps,
     task_type |-> ty, results |-> None, error |-> NoError,
     updated_at |-> FALSE, started_at |-> FALSE, completed_at |-> FALSE,
     started_writes |-> 0, completed_writes |-> 0]

\* Task.update_status.  The three timestamps are kept as "a value is stored":
\* the code only ever tests them for being set.  started_writes and
\* completed_writes count the assignments to started_at and completed_at.
UpdateStatus(t, new_status, error_message) ==
    LET t1 == [t EXCEPT !.status = new_status, !.updated_at = TRUE]
    IN  IF new_status = IN_PROGRESS /\ ~t.started_at
          THEN [t1 EXCEPT !.started_at = TRUE, !.started_writes = @ + 1]
        ELSE IF new_status = COMPLETED
          THEN [t1 EXCEPT !.completed_at = TRUE, !.completed_writes = @ + 1]
        ELSE IF new_status = FAILED /\ error_message # NoError
          THEN [t1 EXCEPT !.error = error_message]
        ELSE t1

\* Task.add_results
AddResults(t, results) ==
    UpdateStatus([t EXCEPT !.results = results], COMPLETED, NoError)

\* self.tasks[id] = task
Put(tks, id, t) ==
    [i \in (DOMAIN tks) \cup {id} |-> IF i = id THEN t ELSE tks[i]]

\* ---------------------------------------------------------------- ready queue
\* Task ids are strings (uuid4 in task_creator.py) whose order is unrelated to
\* the order in which they are issued.  The model numbers the ids in the
\* order they are first submitted; IdRank(id) is the id's place in string order.
IdRank(id) == IF id % 2 = 1 THEN id + 1 ELSE id - 1

\* a comparison that skips the timestamp
EntryLeqByPriorityAndId(a, b) ==
    \/ a[1] < b[1]
    \/ a[1] = b[1] /\ IdRank(a[3]) <= IdRank(b[3])

\* Tuple comparison of two heap entries (-priority, timestamp, id)
EntryLeq(a, b) ==
    \/ a[1] < b[1]
    \/ a[1] = b[1] /\ a[2] < b[2]
    \/ a[1] = b[1] /\ a[2] = b[2] /\ IdRank(a[3]) <= IdRank(b[3])

\* heapq.heappush: the heap is kept as the sequence in which heappop
\* returns its entries (equal tuples are indistinguishable)
HeapPush(q, e) ==
    LET k == Cardinality({i \in 1..Len(q) : EntryLeq(q[i], e)})
    IN  SubSeq(q, 1, k) \o <<e>> \o SubSeq(q, k + 1, Len(q))

\* datetime.now(): the clock never runs backwards, and two reads may agree
NowReads(c) == {t \in {c, c + 1} : t <= MaxClock}

\* _add_to_priority_queue, with the timestamp it read
AddToPriorityQueue(q, t, id, now) == HeapPush(q, <<0 - t.priority, now, id>>)

\* _all_dependencies_met
AllDependenciesMet(tks, t) ==
    \A dep_id \in t.dependencies :
        dep_id \in DOMAIN tks /\ tks[dep_id].status = COMPLETED

\* the loop of _rebuild_priority_queue: each entry of the old heap whose task
\* is known and QUEUED is pushed, with the tuple it had, onto new_queue
RECURSIVE RebuildLoop(_, _, _)
RebuildLoop(q, tks, new_queue) ==
    IF q = <<>>
      THEN new_queue
      ELSE LET e == Head(q)
           IN  RebuildLoop(Tail(q), tks,
                           IF e[3] \in DOMAIN tks /\ tks[e[3]].status = QUEUED
                             THEN HeapPush(new_queue, e)
                             ELSE new_queue)

\* a rebuild that keeps no more than the first entry it pushes
RebuildPriorityQueueKeepsOne(q, tks) ==
    LET new_queue == RebuildLoop(q, tks, <<>>)
    IN  IF new_queue = <<>> THEN <<>> ELSE <<Head(new_queue)>>

\* _rebuild_priority_queue
RebuildPriorityQueue(q, tks) == RebuildLoop(q, tks, <<>>)

\* the tasks _check_dependent_tasks pushes, in the order it pushes them
ReadyDependents(tks, order, completed_task_id) ==
    SelectSeq(order, LAMBDA i :
        /\ tks[i].status = QUEUED
        /\ completed_task_id \in tks[i].dependencies
        /\ AllDependenciesMet(tks, tks[i]))

\* the pushes of _check_dependent_tasks: every (queue, clock) they can end in
RECURSIVE PushAll(_, _, _, _)
PushAll(tks, q, c, ids) ==
    IF ids = <<>> THEN {[queue |-> q, clock |-> c]}
    ELSE UNION { PushAll(tks, AddToPriorityQueue(q, tks[Head(ids)], Head(ids), now),
                         now, Tail(ids)) : now \in NowReads(c) }

\* _check_dependent_tasks, run with the lock held
CheckDependentTasks(tks, order, q, c, completed_task_id) ==
    PushAll(tks, q, c, ReadyDependents(tks, order, completed_task_id))

\* the while loop of _process_next_tasks: pops until the slots are used up
\* or the heap is empty; returns the heap left and the tasks to start
RECURSIVE PopLoop(_, _, _, _)
\* a loop in which every popped entry uses up a slot, live or not
PopLoopDeadEntryTakesSlot(q, tks, available_slots, tasks_to_start) ==
    LET n == IF available_slots < Len(q) THEN available_slots ELSE Len(q)
        live == SelectSeq(SubSeq(q, 1, n),
                          LAMBDA e : e[3] \in DOMAIN tks /\ tks[e[3]].status = QUEUED)
    IN  [queue |-> SubSeq(q, n + 1, Len(q)),
         start |-> tasks_to_start \o [k \in 1..Len(live) |-> live[k][3]]]

PopLoop(q, tks, available_slots, tasks_to_start) ==
    IF available_slots > 0 /\ q # <<>>
      THEN LET task_id == Head(q)[3]
           IN  IF task_id \in DOMAIN tks /\ tks[task_id].status = QUEUED
                 THEN PopLoop(Tail(q), tks, available_slots - 1,
                              Append(tasks_to_start, task_id))
                 ELSE PopLoop(Tail(q), tks, available_slots, tasks_to_start)
      ELSE [queue |-> q, start |-> tasks_to_start]

\* deque.appendleft on a deque with maxlen
AppendLeft(d, id) ==
    LET s == <<id>> \o d
    IN  IF Len(s) > CompletedMaxLen THEN SubSeq(s, 1, CompletedMaxLen) ELSE s

\* a lookup without the fallback to "default"
ResolveHandlerOwnTypeOnly(handlers, ty) == IF ty \in handlers THEN ty ELSE None

\* the handler _execute_task resolves for a task type (None: no handler)
ResolveHandler(handlers, ty) ==
    IF ty \in handlers THEN ty
    ELSE IF "default" \in handlers THEN "default"
    ELSE None

NoHandlerError(ty) == <<"No handler registered for task type: ", ty>>
ExecError(id) == <<"Error executing task ", id, ": ", "exception">>

\* list.pop(i) on the bookkeeping sequences of the model
RemoveAt(s, i) == SubSeq(s, 1, i - 1) \o SubSeq(s, i + 1, Len(s))

\* Lock.acquire() returns without suspending
LockFree == ~queue_lock /\ lock_waiters = <<>>

\* the unit has not run its first segment yet
Waiting(u) == u.pc \in {"spawned", "starting"}

\* no unit is left at all: a dispatcher that awaits the units it starts
AllFinished == units = <<>>

\* no unit is still waiting for its first run
AllStarted == \A i \in 1..Len(units) : ~Waiting(units[i])

\* the event loop is between two segments of a unit that found no handler
InSegment == \E i \in 1..Len(units) : units[i].pc = "no_handler"

\* the event loop is not in the middle of running a batch of new units
Quiet == ~InSegment /\ \A i \in 1..Len(units) : units[i].pc # "starting"

\* The lock is free and a coroutine is waiting for it: release() has scheduled
\* the first waiter, which runs in the next iteration of the event loop.
WaiterReady == ~queue_lock /\ lock_waiters # <<>>

\* Nothing is scheduled to run at once.  A step of a unit or of a client that
\* becomes ready while a waiter is scheduled finds the same state whether it
\* runs just before the release or just after the waiter; the model lets it
\* run on either side, not in between.
Idle == Quiet /\ ~WaiterReady

\* the first unit of a batch runs: the rest of the batch follows at once
BatchBegun(us) ==
    [k \in 1..Len(us) |-> IF us[k].pc = "spawned" THEN [us[k] EXCEPT !.pc = "starting"]
                          ELSE us[k]]

\* ---------------------------------------------------------------- Init
Init ==
    /\ tasks = <<>>
    /\ task_order = <<>>
    /\ task_queue = <<>>
    /\ running_tasks = {}
    /\ completed_tasks = <<>>
    /\ task_handlers = {}
    /\ storage \in BOOLEAN
    /\ max_concurrent_tasks = MaxConcurrent
    /\ queue_lock = FALSE
    /\ lock_waiters = <<>>
    /\ clock = 1
    /\ saving = 0
    /\ cancels = <<>>
    /\ units = <<>>
    /\ returned = [op |-> "none", id |-> 0, value |-> None]
    /\ nsubmit = 0
    /\ ncancel = 0
    /\ nget = 0

\* ---------------------------------------------------------------- register_handler
\* Handlers are registered at startup, before the first task is submitted.
RegisterHandler(task_type) ==
    /\ task_type \notin task_handlers
    /\ nsubmit = 0
    /\ task_handlers' = task_handlers \cup {task_type}
    /\ UNCHANGED <<tasks, task_order, task_queue, running_tasks, completed_tasks,
                   storage, max_concurrent_tasks, queue_lock, lock_waiters, clock,
                   saving, cancels, units, returned, nsubmit, ncancel, nget>>

\* ---------------------------------------------------------------- enqueue
\* a test that pushes only tasks without dependencies
ReadyAtEnqueueWithoutDependencies(tks, t) == t.dependencies = {}

\* whether enqueue pushes the task it has just stored
ReadyAtEnqueue(tks, t) == t.dependencies = {} \/ AllDependenciesMet(tks, t)

\* self.tasks[task.id] = task, as enqueue does it
StoreTask(tks, id, t) == Put(tks, id, t)

\* enqueue returns task.id
EnqueueReturn(id) == [op |-> "enqueue", id |-> id, value |-> "task_id"]

\* enqueue, from taking the lock to the await on storage.save_task (or, with
\* no storage, to its return)
Enqueue(id, prio, deps, ty) ==
    /\ nsubmit < MaxSubmits
    /\ ~queue_lock
    /\ Quiet
    /\ nsubmit' = nsubmit + 1
    /\ LET task == NewTask(prio, deps, ty)
           tks1 == StoreTask(tasks, id, task)
       IN  /\ tasks' = tks1
           /\ task_order' = IF id \in DOMAIN tasks THEN task_order
                            ELSE Append(task_order, id)
           /\ IF ReadyAtEnqueue(tks1, task)
                THEN \E now \in NowReads(clock) :
                        /\ clock' = now
                        /\ task_queue' = AddToPriorityQueue(task_queue, task, id, now)
                ELSE UNCHANGED <<clock, task_queue>>
    /\ IF storage
         THEN /\ queue_lock' = TRUE
              /\ saving' = id
              /\ UNCHANGED returned
         ELSE /\ returned' = EnqueueReturn(id)
              /\ UNCHANGED <<queue_lock, saving>>
    /\ UNCHANGED <<running_tasks, completed_tasks, task_handlers, storage,
                   max_concurrent_tasks, lock_waiters, cancels, units, ncancel, nget>>

\* storage.save_task returns: enqueue releases the lock and returns the id
EnqueueSaved ==
    /\ saving # 0
    /\ Quiet
    /\ queue_lock' = FALSE
    /\ saving' = 0
    /\ returned' = EnqueueReturn(saving)
    /\ UNCHANGED <<tasks, task_order, task_queue, running_tasks, completed_tasks,
                   task_handlers, storage, max_concurrent_tasks, lock_waiters, clock,
                   cancels, units, nsubmit, ncancel, nget>>

\* ---------------------------------------------------------------- dispatcher
\* a slot count in which a finished task keeps its slot
AvailableSlotsNeverFreed(limit, running) ==
    limit - Cardinality(running) - Len(completed_tasks)

\* available_slots of _process_next_tasks
AvailableSlots(limit, running) == limit - Cardinality(running)

\* one pass of start_processing: _process_next_tasks, then the sleep
ProcessNextTasks ==
    /\ ~queue_lock
    /\ AllStarted
    /\ Quiet
    /\ LET available_slots == AvailableSlots(max_concurrent_tasks, running_tasks)
           r == PopLoop(task_queue, tasks, available_slots, <<>>)
       IN  IF available_slots <= 0 \/ task_queue = <<>>
             THEN UNCHANGED <<task_queue, units>>
             ELSE /\ task_queue' = r.queue
                  /\ units' = units \o [k \in 1..Len(r.start) |->
                                          [id |-> r.start[k],
                                           task_type |-> tasks[r.start[k]].task_type,
                                           handler |-> None,
                                           pc |-> "spawned"]]
    /\ UNCHANGED <<tasks, task_order, running_tasks, completed_tasks, task_handlers,
                   storage, max_concurrent_tasks, queue_lock, lock_waiters, clock,
                   saving, cancels, returned, nsubmit, ncancel, nget>>

\* ---------------------------------------------------------------- update_task_status
\* update_task_status(id, IN_PROGRESS) up to its storage await
MarkInProgress(tks, id) ==
    [tks EXCEPT ![id] = UpdateStatus(@, IN_PROGRESS, NoError)]

\* update_task_status(id, COMPLETED, results): a falsy results map is not stored
MarkCompleted(tks, id, results) ==
    LET t1 == UpdateStatus(tks[id], COMPLETED, NoError)
    IN  [tks EXCEPT ![id] = IF results # None THEN AddResults(t1, results) ELSE t1]

\* a FAILED update that drops the message
MarkFailedWithoutMessage(tks, id, error) ==
    [tks EXCEPT ![id] = UpdateStatus(@, FAILED, NoError)]

\* update_task_status(id, FAILED, error=...)
MarkFailed(tks, id, error) ==
    [tks EXCEPT ![id] = UpdateStatus(@, FAILED, error)]

\* update_task_status(id, CANCELLED)
MarkCancelled(tks, id) ==
    [tks EXCEPT ![id] = UpdateStatus(@, CANCELLED, NoError)]

\* ---------------------------------------------------------------- _execute_task
\* The terminal branch of update_task_status, called by unit i: the task
\* leaves the running set, joins the completed deque, and the dependents are
\* checked (after a wait if the lock is not free).  What is left of the unit
\* after that, the await on storage.update_task and the return, changes
\* nothing, so the unit leaves units here.  us is units as the step found it,
\* with the marks of a batch that has begun.
UnitTerminal(i, tks1, running1, us) ==
    LET id == units[i].id
    IN  /\ tasks' = tks1
        /\ running_tasks' = running1 \ {id}
        /\ completed_tasks' = AppendLeft(completed_tasks, id)
        /\ units' = RemoveAt(us, i)
        /\ IF LockFree
             THEN /\ \E o \in CheckDependentTasks(tks1, task_order, task_queue, clock, id) :
                        /\ task_queue' = o.queue
                        /\ clock' = o.clock
                  /\ UNCHANGED lock_waiters
             ELSE /\ lock_waiters' = Append(lock_waiters, [op |-> "unit_deps", id |-> id])
                  /\ UNCHANGED <<task_queue, clock>>
        /\ UNCHANGED <<task_order, task_handlers, storage, max_concurrent_tasks,
                       queue_lock, saving, cancels, returned, nsubmit, ncancel, nget>>

\* _execute_task from "self.running_tasks[task.id] = task" through the handler
\* lookup, to the await on the handler if there is one
UnitRun(i, tks1, us) ==
    /\ tasks' = tks1
    /\ running_tasks' = running_tasks \cup {units[i].id}
    /\ LET handler == ResolveHandler(task_handlers, units[i].task_type)
       IN  units' = [us EXCEPT ![i].handler = handler,
                               ![i].pc = IF handler = None THEN "no_handler"
                                         ELSE "handler"]
    /\ UNCHANGED <<task_order, task_queue, completed_tasks, task_handlers,
                   storage, max_concurrent_tasks, queue_lock, lock_waiters,
                   clock, saving, cancels, returned, nsubmit, ncancel, nget>>

\* no handler was found: update_task_status(FAILED, error=...), same segment
UnitNoHandler(i) ==
    /\ i \in 1..Len(units)
    /\ units[i].pc = "no_handler"
    /\ UnitTerminal(i, MarkFailed(tasks, units[i].id, NoHandlerError(units[i].task_type)),
                    running_tasks, units)

\* a spawned unit starts: update_task_status(task.id, IN_PROGRESS)
UnitStart(i) ==
    /\ i \in 1..Len(units)
    /\ Waiting(units[i])
    /\ \A j \in 1..(i - 1) : ~Waiting(units[j])
    /\ ~InSegment
    /\ ~WaiterReady
    /\ IF storage
         THEN /\ tasks' = MarkInProgress(tasks, units[i].id)
              /\ units' = [BatchBegun(units) EXCEPT ![i].pc = "persist_start"]
              /\ UNCHANGED <<task_order, task_queue, running_tasks, completed_tasks,
                             task_handlers, storage, max_concurrent_tasks, queue_lock,
                             lock_waiters, clock, saving, cancels, returned, nsubmit,
                             ncancel, nget>>
         ELSE UnitRun(i, MarkInProgress(tasks, units[i].id), BatchBegun(units))

\* storage.update_task returns inside update_task_status(IN_PROGRESS)
UnitStartPersisted(i) ==
    /\ i \in 1..Len(units)
    /\ units[i].pc = "persist_start"
    /\ Idle
    /\ UnitRun(i, tasks, units)

\* the handler returns a results map (None stands for an empty map)
UnitHandlerReturns(i, results) ==
    /\ i \in 1..Len(units)
    /\ units[i].pc = "handler"
    /\ Idle
    /\ UnitTerminal(i, MarkCompleted(tasks, units[i].id, results), running_tasks, units)

\* the handler raises
UnitHandlerRaises(i) ==
    /\ i \in 1..Len(units)
    /\ units[i].pc = "handler"
    /\ Idle
    /\ UnitTerminal(i, MarkFailed(tasks, units[i].id, ExecError(units[i].id)),
                    running_tasks, units)

\* ---------------------------------------------------------------- cancel_task
\* a status test that lets a running task through as well
CancellableOrRunning(t) == t.status \in {QUEUED, IN_PROGRESS}

\* the status test of cancel_task
Cancellable(t) == t.status = QUEUED

\* cancel_task returns: the value goes to the caller
CancelReturn(id, value) == [op |-> "cancel", id |-> id, value |-> value]

\* the tail of cancel_task: the rebuild under the lock, then "return True"
CancelFinish(id, q, tks) ==
    /\ task_queue' = RebuildPriorityQueue(q, tks)
    /\ returned' = CancelReturn(id, "True")

\* cancel_task from the call to its first suspension or its return
CancelTask(id) ==
    /\ ncancel < MaxCancels
    /\ Idle
    /\ ncancel' = ncancel + 1
    /\ IF id \notin DOMAIN tasks \/ ~Cancellable(tasks[id])
         THEN /\ returned' = CancelReturn(id, "False")
              /\ UNCHANGED <<tasks, task_queue, running_tasks, completed_tasks,
                             lock_waiters, clock, cancels>>
         ELSE LET tks1 == MarkCancelled(tasks, id)
              IN  /\ tasks' = tks1
                  /\ running_tasks' = running_tasks \ {id}
                  /\ completed_tasks' = AppendLeft(completed_tasks, id)
                  /\ IF LockFree
                       THEN /\ UNCHANGED lock_waiters
                            /\ \E o \in CheckDependentTasks(tks1, task_order, task_queue,
                                                            clock, id) :
                                 /\ clock' = o.clock
                                 /\ IF storage
                                      THEN /\ task_queue' = o.queue
                                           /\ cancels' = Append(cancels, id)
                                           /\ UNCHANGED returned
                                      ELSE /\ CancelFinish(id, o.queue, tks1)
                                           /\ UNCHANGED cancels
                       ELSE /\ lock_waiters' = Append(lock_waiters,
                                                  [op |-> "cancel_deps", id |-> id])
                            /\ UNCHANGED <<task_queue, clock, cancels, returned>>
    /\ UNCHANGED <<task_order, task_handlers, storage, max_concurrent_tasks,
                   queue_lock, saving, units, nsubmit, nget>>

\* storage.update_task returns inside update_task_status(CANCELLED); the
\* rebuild follows at once unless the lock is not free
CancelPersisted(k) ==
    /\ k \in 1..Len(cancels)
    /\ Idle
    /\ cancels' = RemoveAt(cancels, k)
    /\ IF LockFree
         THEN /\ CancelFinish(cancels[k], task_queue, tasks)
              /\ UNCHANGED lock_waiters
         ELSE /\ lock_waiters' = Append(lock_waiters,
                                    [op |-> "cancel_rebuild", id |-> cancels[k]])
              /\ UNCHANGED <<task_queue, returned>>
    /\ UNCHANGED <<tasks, task_order, running_tasks, completed_tasks, task_handlers,
                   storage, max_concurrent_tasks, queue_lock, clock, saving, units,
                   nsubmit, ncancel, nget>>

\* ---------------------------------------------------------------- the lock's waiters
\* the first waiter is a unit: it runs _check_dependent_tasks
UnitCheckDeps ==
    /\ ~queue_lock
    /\ Quiet
    /\ lock_waiters # <<>>
    /\ Head(lock_waiters).op = "unit_deps"
    /\ lock_waiters' = Tail(lock_waiters)
    /\ \E o \in CheckDependentTasks(tasks, task_order, task_queue, clock,
                                    Head(lock_waiters).id) :
          /\ task_queue' = o.queue
          /\ clock' = o.clock
    /\ UNCHANGED <<tasks, task_order, running_tasks, completed_tasks, task_handlers,
                   storage, max_concurrent_tasks, queue_lock, saving, cancels, units,
                   returned, nsubmit, ncancel, nget>>

\* the first waiter is a cancel_task inside update_task_status: it runs
\* _check_dependent_tasks and goes on to the storage await
CancelCheckDeps ==
    /\ ~queue_lock
    /\ Quiet
    /\ lock_waiters # <<>>
    /\ Head(lock_waiters).op = "cancel_deps"
    /\ \E o \in CheckDependentTasks(tasks, task_order, task_queue, clock,
                                    Head(lock_waiters).id) :
          /\ clock' = o.clock
          /\ IF storage
               THEN /\ task_queue' = o.queue
                    /\ cancels' = Append(cancels, Head(lock_waiters).id)
                    /\ lock_waiters' = Tail(lock_waiters)
                    /\ UNCHANGED returned
               ELSE \* no suspension before the second acquire: it queues behind
                    \* the waiters already there, or runs at once
                    IF Tail(lock_waiters) = <<>>
                      THEN /\ CancelFinish(Head(lock_waiters).id, o.queue, tasks)
                           /\ lock_waiters' = <<>>
                           /\ UNCHANGED cancels
                      ELSE /\ task_queue' = o.queue
                           /\ lock_waiters' = Append(Tail(lock_waiters),
                                [op |-> "cancel_rebuild", id |-> Head(lock_waiters).id])
                           /\ UNCHANGED <<cancels, returned>>
    /\ UNCHANGED <<tasks, task_order, running_tasks, completed_tasks, task_handlers,
                   storage, max_concurrent_tasks, queue_lock, saving, units,
                   nsubmit, ncancel, nget>>

\* the first waiter is a cancel_task at its rebuild: it rebuilds and returns
CancelRebuild ==
    /\ ~queue_lock
    /\ Quiet
    /\ lock_waiters # <<>>
    /\ Head(lock_waiters).op = "cancel_rebuild"
    /\ lock_waiters' = Tail(lock_waiters)
    /\ CancelFinish(Head(lock_waiters).id, task_queue, tasks)
    /\ UNCHANGED <<tasks, task_order, running_tasks, completed_tasks, task_handlers,
                   storage, max_concurrent_tasks, queue_lock, clock, saving, cancels,
                   units, nsubmit, ncancel, nget>>

\* ---------------------------------------------------------------- specification
\* the ids a caller may submit: one already in the store, or the next new one
SubmitIds == (DOMAIN tasks) \cup {i \in TaskIds : i = Cardinality(DOMAIN tasks) + 1}

\* what a handler may return: a non-empty results map
HandlerResults == {"data"}

Next ==
    \/ \E k \in HandlerKeys : RegisterHandler(k)
    \/ \E id \in SubmitIds, prio \in Priorities, deps \in DepChoices, ty \in TaskTypes :
          Enqueue(id, prio, deps, ty)
    \/ EnqueueSaved
    \/ ProcessNextTasks
    \/ \E i \in 1..Len(units) : UnitStart(i)
    \/ \E i \in 1..Len(units) : UnitStartPersisted(i)
    \/ \E i \in 1..Len(units) : UnitNoHandler(i)
    \/ \E i \in 1..Len(units), results \in HandlerResults : UnitHandlerReturns(i, results)
    \/ \E i \in 1..Len(units) : UnitHandlerRaises(i)
    \/ UnitCheckDeps
    \/ \E id \in TaskIds : CancelTask(id)
    \/ \E k \in 1..Len(cancels) : CancelPersisted(k)
    \/ CancelCheckDeps
    \/ CancelRebuild

Spec == Init /\ [][Next]_vars

\* ---------------------------------------------------------------- fair runs
\* The runs in which the dispatcher keeps making passes, the storage
\* connector answers, every handler returns or raises, and every coroutine
\* that can run does.  Callers submit tasks that depend on nothing or on the
\* first task submitted, and do not cancel.
FairDepChoices == {{}, {1}}

\* a handler returns or raises
HandlerEnds ==
    \E i \in 1..Len(units) :
       \/ \E results \in HandlerResults : UnitHandlerReturns(i, results)
       \/ UnitHandlerRaises(i)

\* the steps of a unit up to the call of its handler
UnitAdvances ==
    \E i \in 1..Len(units) : UnitStart(i) \/ UnitStartPersisted(i) \/ UnitNoHandler(i)

FairNext ==
    \/ \E k \in HandlerKeys : RegisterHandler(k)
    \/ \E id \in SubmitIds, prio \in Priorities, deps \in FairDepChoices, ty \in TaskTypes :
          Enqueue(id, prio, deps, ty)
    \/ EnqueueSaved
    \/ ProcessNextTasks
    \/ UnitAdvances
    \/ HandlerEnds
    \/ UnitCheckDeps

Fairness ==
    /\ WF_vars(EnqueueSaved)
    /\ WF_vars(ProcessNextTasks)
    /\ WF_vars(UnitAdvances)
    /\ WF_vars(HandlerEnds)
    /\ WF_vars(UnitCheckDeps)

FairSpec == Init /\ [][FairNext]_vars /\ Fairness

\* the fair runs in which a handler need not ever return or raise
HangFairness ==
    /\ WF_vars(EnqueueSaved)
    /\ WF_vars(ProcessNextTasks)
    /\ WF_vars(UnitAdvances)
    /\ WF_vars(UnitCheckDeps)

HangSpec == Init /\ [][FairNext]_vars /\ HangFairness

\* ---------------------------------------------------------------- get_task
\* get_task returns the Task object of self.tasks, or None.  An id that is not
\* in self.tasks is asked of the storage connector; every task the connector
\* was given is in self.tasks as well, so it has nothing for such an id, and
\* the branch that loads a task from it is not taken.

\* a return value that leaves the results out
GetReturnWithoutResults(id, tks) ==
    IF id \in DOMAIN tks
      THEN [op |-> "get_task", id |-> id, value |-> "Task",
            task |-> [tks[id] EXCEPT !.results = None]]
      ELSE [op |-> "get_task", id |-> id, value |-> None]

\* what get_task hands to its caller
GetReturn(id, tks) ==
    IF id \in DOMAIN tks
      THEN [op |-> "get_task", id |-> id, value |-> "Task", task |-> tks[id]]
      ELSE [op |-> "get_task", id |-> id, value |-> None]

\* one call of get_task by a client
GetTask(id) ==
    /\ nget < MaxGets
    /\ Idle
    /\ nget' = nget + 1
    /\ returned' = GetReturn(id, tasks)
    /\ UNCHANGED <<tasks, task_order, task_queue, running_tasks, completed_tasks,
                   task_handlers, storage, max_concurrent_tasks, queue_lock,
                   lock_waiters, clock, saving, cancels, units, nsubmit, ncancel>>

\* The runs with queries: clients submit the tasks of FairSpec, call get_task
\* on any id, and call cancel_task on ids that are not stored (Spec has the
\* cancel_task calls on stored ids).
ReadNext ==
    \/ \E k \in HandlerKeys : RegisterHandler(k)
    \/ \E id \in SubmitIds, prio \in Priorities, deps \in FairDepChoices, ty \in TaskTypes :
          Enqueue(id, prio, deps, ty)
    \/ EnqueueSaved
    \/ ProcessNextTasks
    \/ UnitAdvances
    \/ HandlerEnds
    \/ UnitCheckDeps
    \/ \E id \in TaskIds \ DOMAIN tasks : CancelTask(id)
    \/ \E id \in TaskIds : GetTask(id)

ReadSpec == Init /\ [][ReadNext]_vars

\* ---------------------------------------------------------------- storage faults
\* The storage connector is an object handed to the constructor; the repository
\* holds no implementation of it.  Spec and FairSpec take its calls to return
\* normally.  FaultSpec adds the runs in which a call raises.  No call to the
\* connector is wrapped in a try of its own (lines 59-60, 217-218).

\* what the caller of enqueue gets when the call ends with an exception
EnqueueRaises(id) == [op |-> "enqueue", id |-> id, value |-> "raised"]

\* storage.save_task raises inside enqueue: "async with" releases the lock and
\* the exception goes to the caller; the task stays stored (and queued)
EnqueueSaveFails ==
    /\ saving # 0
    /\ Quiet
    /\ queue_lock' = FALSE
    /\ saving' = 0
    /\ returned' = EnqueueRaises(saving)
    /\ UNCHANGED <<tasks, task_order, task_queue, running_tasks, completed_tasks,
                   task_handlers, storage, max_concurrent_tasks, lock_waiters, clock,
                   cancels, units, nsubmit, ncancel, nget>>

\* storage.update_task raises inside update_task_status(IN_PROGRESS): line 286
\* is outside the try, so the exception ends the unit before line 287
UnitStartPersistFails(i) ==
    /\ i \in 1..Len(units)
    /\ units[i].pc = "persist_start"
    /\ Idle
    /\ units' = RemoveAt(units, i)
    /\ UNCHANGED <<tasks, task_order, task_queue, running_tasks, completed_tasks,
                   task_handlers, storage, max_concurrent_tasks, queue_lock,
                   lock_waiters, clock, saving, cancels, returned, nsubmit, ncancel, nget>>

\* The handler returns and storage.update_task raises, at the call, inside
\* update_task_status(COMPLETED): the call sits in the try of line 305, so the
\* except branch runs update_task_status(FAILED, error=...) on the same task.
\* With the lock free nothing suspends from the handler's return to the second
\* storage call, whose outcome changes nothing more.
UnitCompletedPersistFails(i, results) ==
    /\ i \in 1..Len(units)
    /\ units[i].pc = "handler"
    /\ Idle
    /\ storage
    /\ LockFree
    /\ LET id   == units[i].id
           tks1 == MarkCompleted(tasks, id, results)
           tks2 == MarkFailed(tks1, id, ExecError(id))
       IN  /\ tasks' = tks2
           /\ running_tasks' = running_tasks \ {id}
           /\ completed_tasks' = AppendLeft(AppendLeft(completed_tasks, id), id)
           /\ units' = RemoveAt(units, i)
           /\ \E o1 \in CheckDependentTasks(tks1, task_order, task_queue, clock, id) :
                 \E o2 \in CheckDependentTasks(tks2, task_order, o1.queue, o1.clock, id) :
                    /\ task_queue' = o2.queue
                    /\ clock' = o2.clock
    /\ UNCHANGED <<task_order, task_handlers, storage, max_concurrent_tasks,
                   queue_lock, lock_waiters, saving, cancels, returned, nsubmit,
                   ncancel, nget>>

\* a storage call of an execution unit raises
UnitPersistFails ==
    \E i \in 1..Len(units) :
        \/ UnitStartPersistFails(i)
        \/ \E results \in HandlerResults : UnitCompletedPersistFails(i, results)

FaultNext ==
    \/ \E k \in HandlerKeys : RegisterHandler(k)
    \/ \E id \in SubmitIds, prio \in Priorities, deps \in FairDepChoices, ty \in TaskTypes :
          Enqueue(id, prio, deps, ty)
    \/ EnqueueSaved
    \/ EnqueueSaveFails
    \/ ProcessNextTasks
    \/ UnitAdvances
    \/ HandlerEnds
    \/ UnitPersistFails
    \/ UnitCheckDeps

FaultSpec == Init /\ [][FaultNext]_vars

\* ---------------------------------------------------------------- properties
\* the tasks whose status is IN_PROGRESS
InProgress == {id \in DOMAIN tasks : tasks[id].status = IN_PROGRESS}

\* the place of x in the sequence s
Pos(s, x) == CHOOSE k \in 1..Len(s) : s[k] = x

\* a heap entry whose task is in the store with status QUEUED
LiveEntry(e) == e[3] \in DOMAIN tasks /\ tasks[e[3]].status = QUEUED

\* the step is a dispatcher pass that starts at least one unit
IsPass == Len(units') > Len(units)

\* the number of entries the step takes off the heap
Popped == Len(task_queue) - Len(task_queue')

\* the ids of the units the step spawns, in spawn order
Started == [k \in 1..(Len(units') - Len(units)) |-> units'[Len(units) + k].id]

\* a pass takes a front segment of the heap and spawns a unit for each live
\* entry of the segment, in heap order
PassTakesFront ==
    /\ Popped \in 1..Len(task_queue)
    /\ task_queue' = SubSeq(task_queue, Popped + 1, Len(task_queue))
    /\ LET live == SelectSeq(SubSeq(task_queue, 1, Popped), LiveEntry)
       IN  Started = [k \in 1..Len(live) |-> live[k][3]]

\* no id has been submitted twice so far
NoResubmission == nsubmit = Len(task_order)

\* the cancel_task calls that are suspended
CancelsInFlight ==
    Len(cancels) + Cardinality({k \in 1..Len(lock_waiters) :
                                  lock_waiters[k].op \in {"cancel_deps", "cancel_rebuild"}})

\* the ids of the suspended cancel_task calls
CancelIdsInFlight ==
    {cancels[k] : k \in 1..Len(cancels)} \cup
    {lock_waiters[k].id : k \in {j \in 1..Len(lock_waiters) :
                                   lock_waiters[j].op \in {"cancel_deps", "cancel_rebuild"}}}

\* the status changes the lifecycle allows
AllowedTransitions ==
    {<<QUEUED, IN_PROGRESS>>, <<IN_PROGRESS, COMPLETED>>,
     <<IN_PROGRESS, FAILED>>, <<QUEUED, CANCELLED>>}

\* C1: in every reachable state the number of tasks with status IN_PROGRESS
\* is at most max_concurrent_tasks.
C1_InProgressWithinLimit == Cardinality(InProgress) <= max_concurrent_tasks

\* C2: at the step where a task's status becomes IN_PROGRESS, every id in its
\* dependencies is in the store with status COMPLETED.
C2_DependenciesCompletedAtStart ==
    [][\A id \in DOMAIN tasks :
          (tasks[id].status # IN_PROGRESS /\ tasks'[id].status = IN_PROGRESS)
            => AllDependenciesMet(tasks, tasks[id])]_vars

\* C3: when tasks A and B are both live entries of the ready queue and
\* A.priority > B.priority, a pass that starts B has started A before it.
C3_HigherPriorityFirst ==
    [][IsPass =>
         \A i, j \in 1..Len(task_queue) :
            ( /\ LiveEntry(task_queue[i]) /\ LiveEntry(task_queue[j])
              /\ task_queue[i][3] # task_queue[j][3]
              /\ tasks[task_queue[i][3]].priority > tasks[task_queue[j][3]].priority
              /\ j <= Popped
              /\ \A k \in 1..(j - 1) : task_queue[k][3] # task_queue[j][3] )
            => \E k \in 1..(j - 1) : task_queue[k][3] = task_queue[i][3]]_vars

C5_CancelOnlyQueued ==
    [][/\ (ncancel' = ncancel + 1) =>
             \E id \in TaskIds :
                /\ CancelTask(id)
                /\ IF id \in DOMAIN tasks /\ tasks[id].status = QUEUED
                     THEN /\ tasks'[id].status = CANCELLED
                          /\ \A o \in DOMAIN tasks \ {id} : tasks'[o] = tasks[o]
                          /\ \/ returned' = CancelReturn(id, "True")
                             \/ /\ CancelsInFlight' = CancelsInFlight + 1
                                /\ id \in CancelIdsInFlight'
                                /\ returned' = returned
                     ELSE /\ tasks' = tasks
                          /\ returned' = CancelReturn(id, "False")
                          /\ CancelsInFlight' = CancelsInFlight
       /\ (ncancel' = ncancel) =>
             /\ CancelsInFlight' <= CancelsInFlight
             /\ (CancelsInFlight' < CancelsInFlight) =>
                   \E id \in CancelIdsInFlight : returned' = CancelReturn(id, "True")
             /\ (CancelsInFlight' = CancelsInFlight /\ returned'.op = "cancel") =>
                   returned' = returned]_vars

\* C5 witness: a cancel_task call on a queued task has returned True and the
\* task is CANCELLED.
C5_Witness ==
    /\ returned.op = "cancel"
    /\ returned.value = "True"
    /\ tasks[returned.id].status = CANCELLED

\* C6: once cancel_task(id) has returned True, the task never has status
\* IN_PROGRESS and its handler is never invoked.
C6_CancelledNeverRuns ==
    (returned.op = "cancel" /\ returned.value = "True") =>
        /\ tasks[returned.id].status # IN_PROGRESS
        /\ \A i \in 1..Len(units) :
              units[i].id = returned.id => units[i].pc # "handler"

\* C7: update_task_status on a task with a terminal status changes nothing,
\* so a status that is COMPLETED, FAILED or CANCELLED never changes.
C7_TerminalIsFinal ==
    [][(nsubmit' = nsubmit) =>
         \A id \in DOMAIN tasks :
            tasks[id].status \in Terminal => tasks'[id].status = tasks[id].status]_vars

\* C8: a newly submitted task has status QUEUED, and every status change made
\* by the dispatcher, a unit or cancel_task is QUEUED -> IN_PROGRESS,
\* IN_PROGRESS -> COMPLETED, IN_PROGRESS -> FAILED or QUEUED -> CANCELLED.
C8_OnlyAllowedTransitions ==
    [][/\ \A id \in (DOMAIN tasks') \ (DOMAIN tasks) : tasks'[id].status = QUEUED
       /\ (nsubmit' = nsubmit) =>
             \A id \in DOMAIN tasks :
                tasks'[id].status # tasks[id].status
                  => <<tasks[id].status, tasks'[id].status>> \in AllowedTransitions]_vars

\* C9: enqueue of a task whose id is already in the store is rejected: the
\* stored task is not overwritten and no entry is added to the ready queue.
C9_DuplicateRejected ==
    [][\A id \in DOMAIN tasks, prio \in Priorities, deps \in DepChoices, ty \in TaskTypes :
          Enqueue(id, prio, deps, ty) => (tasks' = tasks /\ task_queue' = task_queue)]_vars

\* C10: enqueue of a task with a dependency that is not in the store is
\* rejected: the task is neither stored nor queued.
C10_UnknownDependencyRejected ==
    [][\A id \in SubmitIds, prio \in Priorities, deps \in DepChoices, ty \in TaskTypes :
          (Enqueue(id, prio, deps, ty) /\ \E d \in deps : d \notin DOMAIN tasks)
            => (tasks' = tasks /\ task_queue' = task_queue)]_vars

\* C11: a unit uses the handler registered for its task_type, else the one
\* registered as "default"; with neither, the task ends in FAILED with the
\* error "No handler registered for task type: <task_type>" and the unit
\* ends without having invoked a handler.
C11_HandlerResolution ==
    [][\A i \in 1..Len(units) :
          /\ ( /\ Len(units') = Len(units)
               /\ units[i].pc \notin {"handler", "no_handler"}
               /\ units'[i].pc \in {"handler", "no_handler"} )
             => IF units[i].task_type \in task_handlers
                  THEN units'[i].pc = "handler"
                       /\ units'[i].handler = units[i].task_type
                ELSE IF "default" \in task_handlers
                  THEN units'[i].pc = "handler" /\ units'[i].handler = "default"
                ELSE units'[i].pc = "no_handler" /\ units'[i].handler = None
          /\ units[i].pc = "no_handler"
             => /\ units' = RemoveAt(units, i)
                /\ tasks'[units[i].id].status = FAILED
                /\ tasks'[units[i].id].error =
                      <<"No handler registered for task type: ", units[i].task_type>>]_vars

\* C11 witness: with no handler registered at all, a unit has ended and its
\* task is FAILED with the no-handler error.
C11_Witness ==
    /\ task_handlers = {}
    /\ units = <<>>
    /\ \E id \in DOMAIN tasks :
          /\ tasks[id].status = FAILED
          /\ tasks[id].error = <<"No handler registered for task type: ", tasks[id].task_type>>

C13_DependentEventuallyDispatched ==
    \A c \in TaskIds :
       ( /\ c \in DOMAIN tasks
         /\ tasks[c].status = QUEUED
         /\ tasks[c].dependencies # {}
         /\ AllDependenciesMet(tasks, tasks[c]) )
       ~> (c \in DOMAIN tasks /\ tasks[c].status = IN_PROGRESS)

\* the number of ready-queue entries, and of execution units, of task id
EntriesOf(q, id) == Cardinality({k \in 1..Len(q) : q[k][3] = id})

UnitsOf(us, id) == Cardinality({i \in 1..Len(us) : us[i].id = id})

\* a dependency of the stored task c is FAILED or CANCELLED
HasDeadDependency(c) ==
    \E d \in tasks[c].dependencies :
        d \in DOMAIN tasks /\ tasks[d].status \in {FAILED, CANCELLED}

\* C14: a failed or cancelled dependency is never propagated: while a
\* dependency of a QUEUED task C is FAILED or CANCELLED, no step other than a
\* submission pushes C to the ready queue or dispatches it, and C stays QUEUED
\* unless it is cancelled itself.
C14_DeadDependencyStarves ==
    [][\A c \in DOMAIN tasks :
          (tasks[c].status = QUEUED /\ HasDeadDependency(c) /\ nsubmit' = nsubmit) =>
             /\ EntriesOf(task_queue', c) <= EntriesOf(task_queue, c)
             /\ UnitsOf(units', c) <= UnitsOf(units, c)
             /\ tasks'[c].status \in {QUEUED, CANCELLED}]_vars

\* C15: a failure of the persistence collaborator does not block or fail the
\* in-memory operation: when save_task raises, submit still returns the task
\* id; when update_task raises, the unit goes on as when it returns (the task
\* joins the running set); a task whose handler succeeded ends COMPLETED.
C15_PersistenceFailureSwallowed ==
    /\ [][EnqueueSaveFails =>
             /\ returned' = EnqueueReturn(saving)
             /\ task_queue' = task_queue
             /\ running_tasks' = running_tasks]_vars
    /\ [][\A i \in 1..Len(units) :
             UnitStartPersistFails(i) =>
                /\ units[i].id \in running_tasks'
                /\ task_queue' = task_queue]_vars
    /\ [][\A i \in 1..Len(units) : \A results \in HandlerResults :
             UnitCompletedPersistFails(i, results) =>
                /\ tasks'[units[i].id].status = COMPLETED
                /\ units[i].id \notin running_tasks']_vars

\* a step is a get_task call for id
IsGet(id) == nget' = nget + 1 /\ returned'.id = id

C17_TimestampsWrittenOnce ==
    \A id \in DOMAIN tasks :
       /\ tasks[id].started_writes = (IF tasks[id].started_at THEN 1 ELSE 0)
       /\ tasks[id].completed_writes = (IF tasks[id].completed_at THEN 1 ELSE 0)

\* C18: in every reachable state a task whose results are populated is
\* COMPLETED and a task whose error is populated is FAILED.
C18_ResultsAndErrorMatchStatus ==
    \A id \in DOMAIN tasks :
       /\ tasks[id].results # None => tasks[id].status = COMPLETED
       /\ tasks[id].error # NoError => tasks[id].status = FAILED

\* a step is a cancel_task call for id
IsCancel(id) == ncancel' = ncancel + 1 /\ returned'.op = "cancel" /\ returned'.id = id

\* C19: get_task and cancel_task on an id that is not in the store report
\* NotFoundError to the caller and leave the store, the ready queue and the
\* running set unchanged.
C19_UnknownIdNotFound ==
    [][\A id \in TaskIds \ DOMAIN tasks :
          (IsGet(id) \/ IsCancel(id)) =>
             /\ returned'.value = "NotFoundError"
             /\ UNCHANGED <<tasks, task_queue, running_tasks>>]_vars

\* the step ends the execution unit at place i of units
UnitEnds(i) == units' = RemoveAt(units, i)

\* the dependents of id are re-evaluated in the step, or the re-evaluation
\* has joined the queue for the lock
DependentsChecked(id) ==
    \/ /\ LockFree
       /\ \E o \in CheckDependentTasks(tasks', task_order, task_queue, clock, id) :
             task_queue' = o.queue
    \/ /\ ~LockFree
       /\ lock_waiters' = Append(lock_waiters, [op |-> "unit_deps", id |-> id])

\* C20: every execution unit, whatever its outcome, ends by removing its task
\* from the running set and re-evaluating the task's dependents; hence no
\* task with a terminal status is in the running set (in the states other
\* coroutines can see, that is, between event-loop segments).
C20_UnitAlwaysFreesSlot ==
    /\ [][\A i \in 1..Len(units) :
             (UnitEnds(i) /\ units[i].pc \in {"handler", "no_handler"}) =>
                /\ units[i].id \notin running_tasks'
                /\ tasks'[units[i].id].status \in Terminal
                /\ DependentsChecked(units[i].id)]_vars
    /\ [](~InSegment => \A id \in running_tasks : tasks[id].status \notin Terminal)

\* the step runs _check_dependent_tasks(id) for an execution unit: at the end
\* of the unit with the lock free, or later as the first waiter for the lock
IsUnitCheck(id) ==
    \/ /\ lock_waiters # <<>>
       /\ Head(lock_waiters) = [op |-> "unit_deps", id |-> id]
       /\ lock_waiters' = Tail(lock_waiters)
    \/ /\ LockFree
       /\ \E i \in 1..Len(units) :
             /\ units[i].id = id
             /\ units[i].pc \in {"handler", "no_handler"}
             /\ UnitEnds(i)

\* C21: the dependents check is idempotent: once _check_dependent_tasks(id)
\* has run, running it again with nothing in between leaves every task with
\* as many ready-queue entries as the first run left.
C21_DependentsCheckIdempotent ==
    [][\A id \in TaskIds :
          IsUnitCheck(id) =>
             \A o \in CheckDependentTasks(tasks', task_order', task_queue', clock', id) :
                \A c \in TaskIds : EntriesOf(o.queue, c) = EntriesOf(task_queue', c)]_vars

\* C22: in every reachable state, each ready-queue entry whose task is still
\* QUEUED refers to a task of the store all of whose dependencies are in the
\* store with status COMPLETED.
C22_QueuedEntriesHaveDependenciesMet ==
    \A k \in 1..Len(task_queue) :
       LiveEntry(task_queue[k]) => AllDependenciesMet(tasks, tasks[task_queue[k][3]])

\* the step is a dispatcher pass that pops at least one entry
IsPopPass == Len(task_queue') < Len(task_queue) /\ UNCHANGED <<lock_waiters, cancels, ncancel>>

\* C23: a pass discards every popped entry whose task is unknown or not
\* QUEUED: it takes a front segment of the heap, starts one unit for each
\* live entry of the segment and none for the others, and stops only when it
\* has started as many units as there were free slots or the heap is empty.
C23_DeadEntriesDiscarded ==
    [][IsPopPass =>
         LET available == max_concurrent_tasks - Cardinality(running_tasks)
         IN  /\ PassTakesFront
             /\ Len(Started) <= available
             /\ Len(Started) = available \/ task_queue' = <<>>
             /\ Len(Started) = available => LiveEntry(task_queue[Popped])
             /\ UNCHANGED <<tasks, running_tasks>>]_vars

\* C23 witness: a pass has dropped the entry of a task that a suspended
\* cancel_task has set CANCELLED (the rebuild has not run yet) and has
\* started another task.
C23_Witness ==
    \E a \in CancelIdsInFlight :
       /\ tasks[a].status = CANCELLED
       /\ tasks[a].dependencies = {}
       /\ ~tasks[a].started_at
       /\ EntriesOf(task_queue, a) = 0
       /\ UnitsOf(units, a) = 0
       /\ \E i \in 1..Len(units) : units[i].id # a /\ units[i].pc = "spawned"

\* C24: the dispatch loop does not wait for task execution.  Whatever the
\* handlers do (they may stay suspended for ever), a live ready-queue entry
\* seen with a free slot is taken up by a pass (its task gets a unit or
\* leaves QUEUED) unless the slots fill up first; and a pass that finds no
\* free slot or an empty ready queue pops nothing and starts nothing.
C24_DispatchDoesNotWait ==
    /\ \A b \in TaskIds :
          ( /\ b \in DOMAIN tasks
            /\ tasks[b].status = QUEUED
            /\ EntriesOf(task_queue, b) > 0
            /\ Cardinality(running_tasks) < max_concurrent_tasks )
          ~> ( \/ UnitsOf(units, b) > 0
               \/ b \in DOMAIN tasks /\ tasks[b].status # QUEUED
               \/ Cardinality(running_tasks) >= max_concurrent_tasks )
    /\ [][(IsPass \/ IsPopPass) =>
             /\ Cardinality(running_tasks) < max_concurrent_tasks
             /\ task_queue # <<>>]_vars

\* C24 witness: one handler is suspended, and a pass taken meanwhile has
\* spawned a unit for another task.
C24_Witness ==
    \E i, j \in 1..Len(units) :
       /\ i < j
       /\ units[i].pc = "handler"
       /\ units[j].pc = "spawned"
       /\ units[i].id # units[j].id
       /\ units[i].id \in running_tasks

\* C25: the number of execution units in flight (spawned and not finished,
\* in the running set or not yet) never exceeds max_concurrent_tasks.
C25_UnitsInFlightWithinLimit == Len(units) <= max_concurrent_tasks

\* C26: each task is executed at most once: without any id being submitted
\* twice, the dispatcher never has two execution units of one task id in
\* flight, and starts no unit for a task that has been started before.
C26_ExecutedAtMostOnce ==
    /\ [](NoResubmission => \A id \in TaskIds : UnitsOf(units, id) <= 1)
    /\ [][(NoResubmission /\ IsPass) =>
             \A k \in 1..Len(Started) : ~tasks[Started[k]].started_at]_vars

\* the step is a dispatcher pass that reads len(self.running_tasks) and goes
\* on to pop (the heap is not empty)
ComputesSlots == IsPass \/ IsPopPass

\* C27: whenever the dispatcher computes its available slots, the running
\* set is exactly the set of tasks whose status is IN_PROGRESS.
C27_RunningSetIsInProgressSet ==
    [][ComputesSlots => running_tasks = InProgress]_vars

\* a coroutine holds the lock or is about to be handed it
InCriticalSection == queue_lock \/ lock_waiters # <<>>

C29_IndependentTaskLeavesQueued ==
    \A id \in TaskIds :
       (id \in DOMAIN tasks /\ tasks[id].status = QUEUED /\ tasks[id].dependencies = {})
       ~> (id \in DOMAIN tasks /\ tasks[id].status # QUEUED)

\* C29 witness: a task without dependencies that was submitted behind the
\* concurrency limit has been started.
C29_Witness ==
    /\ Cardinality(DOMAIN tasks) > max_concurrent_tasks
    /\ \A id \in DOMAIN tasks : tasks[id].dependencies = {} /\ tasks[id].started_at

\* the step is a cancel_task that reaches its rebuild after a suspension: it
\* was the first waiter of the lock, or its storage call returned
IsLateRebuild ==
    \/ /\ lock_waiters # <<>>
       /\ Head(lock_waiters).op = "cancel_rebuild"
       /\ lock_waiters' = Tail(lock_waiters)
    \/ /\ Len(cancels') < Len(cancels)
       /\ lock_waiters' = lock_waiters

\* the step is a cancel_task that runs the dependents check and the rebuild
\* in one go (no storage): from the call, or as the first waiter of the lock
IsRebuildAfterCheck(id) ==
    /\ ~storage
    /\ returned'.op = "cancel" /\ returned'.id = id /\ returned'.value = "True"
    /\ \/ /\ ncancel' = ncancel + 1
          /\ lock_waiters' = lock_waiters
          /\ tasks' # tasks
       \/ /\ lock_waiters # <<>>
          /\ Head(lock_waiters) = [op |-> "cancel_deps", id |-> id]
          /\ lock_waiters' = <<>>

\* the entries of q whose task is known and QUEUED after the step, in the
\* order and with the tuples they have in q
LiveAfter(q) ==
    SelectSeq(q, LAMBDA e : e[3] \in DOMAIN tasks' /\ tasks'[e[3]].status = QUEUED)

\* C30: the rebuild of a successful cancel removes exactly the entries whose
\* task is unknown or no longer QUEUED, the cancelled task's entry included;
\* every other entry is kept with its priority and ordering key, so the
\* remaining entries pop in the same relative order as before.
C30_RebuildKeepsLiveEntriesInOrder ==
    [][/\ IsLateRebuild => task_queue' = LiveAfter(task_queue)
       /\ \A id \in TaskIds :
             IsRebuildAfterCheck(id) =>
                \E o \in CheckDependentTasks(tasks', task_order, task_queue, clock, id) :
                   /\ clock' = o.clock
                   /\ task_queue' = LiveAfter(o.queue)]_vars

\* a cancel succeeded on a task that had an entry (it had no dependencies),
\* its entry is gone and two entries of other tasks are still queued
C30_Witness ==
    /\ returned.op = "cancel" /\ returned.value = "True"
    /\ returned.id \in DOMAIN tasks
    /\ tasks[returned.id].status = CANCELLED
    /\ tasks[returned.id].dependencies = {}
    /\ EntriesOf(task_queue, returned.id) = 0
    /\ Len(task_queue) >= 2
    /\ task_queue[1][3] # task_queue[2][3]

====
